---- MODULE Spec2Model ----
(***************************************************************************)
(* post_remove (src/main.rs): delete the posts of an exported archive that *)
(* are older than a cutoff date, one DELETE call at a time, and write the  *)
(* records that are still pending back to the archive file when the        *)
(* ProcessedValue guard is dropped.                                        *)
(*                                                                         *)
(* The state is the archive file on disk, the remote service's posts, and  *)
(* the position and locals of the one process that runs main().  A JSON    *)
(* value is a record tagged with its kind, so that serde_json's total      *)
(* indexing (a missing key or a non-object yields Null) is modelled as it  *)
(* behaves.                                                                *)
(***************************************************************************)
EXTENDS Integers, Sequences, FiniteSets, TLC

\* ---------------------------------------------------------------- bounds
\* Longest archive (number of records in the input file).
MaxLen == 2

\* ------------------------------------------------------- program constants
\* process::exit(line!() as i32): the exit code is the source line.
ExitFileOpen == 53
ExitFileDecode == 58
ExitTimeParse == 134
ExitCreatedAtMissing == 142
ExitCreatedAtParse == 147
ExitIdMissing == 166
ExitIdNotU64 == 171
\* tokio::time::sleep(Duration::from_secs(10)) between two items.
PacingSecs == 10

\* ------------------------------------------------------------- JSON values
Null == [kind |-> "null"]
JStr(s) == [kind |-> "string", str |-> s]
JObj(f) == [kind |-> "object", fields |-> f]

\* serde_json's value[key]: Null when value is no object or lacks the key.
Index(v, key) ==
    IF v.kind = "object" /\ key \in DOMAIN v.fields THEN v.fields[key] ELSE Null

\* Value::as_str(): Some(_) exactly for a JSON string.
IsStr(v) == v.kind = "string"

\* --------------------------------------------------------------- parsing
\* Days are counted from 2021-12-31 (day 0).
\* NaiveDate::parse_from_str(s, "%a %b %d %H:%M:%S %z %Y"): the calendar
\* date written in the text; time of day and offset are parsed and dropped.
CreatedAtTable ==
    ("Fri Dec 31 23:59:59 +0000 2021" :> 0) @@
    ("Sat Jan 01 18:30:00 +0000 2022" :> 1) @@
    ("Sun Jan 02 09:00:00 +0000 2022" :> 2)

CreatedAtParses(s) == s \in DOMAIN CreatedAtTable
ParseCreatedAt(s) == CreatedAtTable[s]

\* NaiveDate::parse_from_str(cli.time, "%Y-%m-%d")
CliTimeTable == ("2022-01-01" :> 1) @@ ("2022-01-02" :> 2)
CliTimeParses(s) == s \in DOMAIN CliTimeTable
ParseCliTime(s) == CliTimeTable[s]

\* str::parse::<u64>() / parse::<i64>() on the decimal numerals used here.
NumeralTable ==
    ("0" :> 0) @@ ("1" :> 1) @@ ("2" :> 2) @@ ("3" :> 3) @@ ("5" :> 5)
NumeralParses(s) == s \in DOMAIN NumeralTable
ParseNumeral(s) == NumeralTable[s]

\* ------------------------------------------------------------ input sets
Ids == {1, 2}
CliTimes == {"2022-01-01", "2022-01-02", "yesterday"}

Tweet(idText, createdAt) ==
    JObj([tweet |-> JObj([id |-> JStr(idText), created_at |-> JStr(createdAt)])])
NullRecord == JObj([tweet |-> Null])
NoCreatedAt == JObj([tweet |-> JObj([id |-> JStr("1")])])
BadCreatedAt == Tweet("1", "2021-12-31T23:59:59Z")
NoId == JObj([tweet |-> JObj([created_at |-> JStr("Fri Dec 31 23:59:59 +0000 2021")])])
BadId == Tweet("x", "Fri Dec 31 23:59:59 +0000 2021")

ArchiveRecords ==
    {Tweet("1", "Fri Dec 31 23:59:59 +0000 2021"),
     Tweet("2", "Fri Dec 31 23:59:59 +0000 2021"),
     Tweet("2", "Sat Jan 01 18:30:00 +0000 2022"),
     Tweet("1", "Sun Jan 02 09:00:00 +0000 2022"),
     NullRecord, NoCreatedAt, BadCreatedAt, NoId, BadId}

Archives == UNION {[1..n -> ArchiveRecords] : n \in 0..MaxLen}

Range(s) == {s[i] : i \in DOMAIN s}


\* ------------------------------------------------------------ filter stage
\* The record's created_at text, as the filter closure reads it.
CreatedAtOf(rec) == Index(Index(rec, "tweet"), "created_at")

\* The exit code the filter closure ends the program with on this record,
\* 0 when it evaluates the record.
RecordExit(rec) ==
    IF ~IsStr(CreatedAtOf(rec)) THEN ExitCreatedAtMissing
    ELSE IF ~CreatedAtParses(CreatedAtOf(rec).str) THEN ExitCreatedAtParse
    ELSE 0

\* The comparison made inclusive.
FilterKeepInclusive(rec, time) == ParseCreatedAt(CreatedAtOf(rec).str) <= time

\* post_time < time
FilterKeep(rec, time) == ParseCreatedAt(CreatedAtOf(rec).str) < time

\* The filter visits the records in order: the first record it cannot read
\* ends the program.
FilterExit(records) ==
    IF \A i \in DOMAIN records : RecordExit(records[i]) = 0 THEN 0
    ELSE LET first == CHOOSE i \in DOMAIN records :
                        /\ RecordExit(records[i]) # 0
                        /\ \A j \in 1..(i - 1) : RecordExit(records[j]) = 0
         IN RecordExit(records[first])

FilterPosts(records, time) == SelectSeq(records, LAMBDA r : FilterKeep(r, time))

\* The After direction of the filter stage (no code in main.rs, which has the
\* Before direction only): timestamp > cutoff, on the same date-only terms.
FilterKeepAfter(rec, time) == ParseCreatedAt(CreatedAtOf(rec).str) > time
FilterPostsAfter(records, time) ==
    SelectSeq(records, LAMBDA r : FilterKeepAfter(r, time))

\* ------------------------------------------------------------ the service
Http(status, deleted, retryAfter, reset) ==
    [kind |-> "http", status |-> status, deleted |-> deleted,
     retry_after |-> retryAfter, reset |-> reset]
TransportError == [kind |-> "error", status |-> 0, deleted |-> "",
                   retry_after |-> "", reset |-> ""]
NoResponse == [kind |-> "none", status |-> 0, deleted |-> "",
               retry_after |-> "", reset |-> ""]

\* Header pairs <<Retry-After, x-rate-limit-reset>> of a 429; "" is absent.
RateLimitHeaders ==
    {<<"3", "">>, <<"0", "5">>, <<"soon", "">>,
     <<"", "5">>, <<"", "1">>, <<"", "later">>, <<"", "">>}

\* Utc::now() when a reset time is read, in the reset header's seconds.
NowTimes == {2, 5}

\* What delete_tweet(id) can come back with: a post the service holds is
\* deleted (data.deleted = true), refused, or answered without the field;
\* a post it does not hold is 404; any call can be rate limited, fail with
\* a server error, or fail in transport.
ServiceResponses(postId, held) ==
    (IF postId \in held
       THEN {Http(200, "true", "", ""), Http(200, "false", "", ""),
             Http(200, "absent", "", "")}
       ELSE {Http(404, "", "", "")})
      \cup {Http(429, "", h[1], h[2]) : h \in RateLimitHeaders}
      \cup {Http(500, "", "", ""), TransportError}

\* The posts the service holds after answering r to delete(postId); a
\* request whose response is lost in transport may have gone through.
ServiceAfter(postId, held, r, wentThrough) ==
    IF r.kind = "http" /\ r.status = 200 /\ r.deleted = "true" THEN held \ {postId}
    ELSE IF r.kind = "error" /\ wentThrough THEN held \ {postId}
    ELSE held

\* --------------------------------------------------------- delete_task
\* The header ignored for a fixed one-second wait.
RetryAfterFixed(text) == 1

\* Seconds slept for a Retry-After header.
RetryAfterSecs(text) == ParseNumeral(text)

\* (naive - now).to_std(): Some(_) exactly for a non-negative duration.
ResetWait(text, now) == ParseNumeral(text) - now

Return == [next |-> "return", secs |-> 0]
Panic == [next |-> "panic", secs |-> 0]
Sleep(secs) == [next |-> "sleep", secs |-> secs]

\* Any 2xx taken as a deletion, the body's data.deleted not looked at.
ClassifyIgnoreBody(r, now) ==
    IF r.kind = "error" THEN Panic
    ELSE IF r.status >= 200 /\ r.status <= 299 THEN Return
    ELSE IF r.status = 429 THEN
        IF r.retry_after # "" THEN
            IF NumeralParses(r.retry_after)
              THEN Sleep(RetryAfterSecs(r.retry_after)) ELSE Panic
        ELSE IF r.reset # "" THEN
            IF NumeralParses(r.reset) /\ ResetWait(r.reset, now) >= 0
              THEN Sleep(ResetWait(r.reset, now)) ELSE Panic
        ELSE Panic
    ELSE Panic

\* A 429 without either header answered with a fixed one-second wait.
ClassifyFallbackWait(r, now) ==
    IF r.kind = "error" THEN Panic
    ELSE IF r.status >= 200 /\ r.status <= 299 THEN
        IF r.deleted = "true" THEN Return ELSE Panic
    ELSE IF r.status = 429 THEN
        IF r.retry_after # "" THEN
            IF NumeralParses(r.retry_after)
              THEN Sleep(RetryAfterSecs(r.retry_after)) ELSE Panic
        ELSE IF r.reset # "" THEN
            IF NumeralParses(r.reset) /\ ResetWait(r.reset, now) >= 0
              THEN Sleep(ResetWait(r.reset, now)) ELSE Panic
        ELSE Sleep(1)
    ELSE Panic

\* An unexpected status or a transport error passed over as if deleted.
ClassifySkipFailure(r, now) ==
    IF r.kind = "error" THEN Return
    ELSE IF r.status >= 200 /\ r.status <= 299 THEN
        IF r.deleted = "true" THEN Return ELSE Panic
    ELSE IF r.status = 429 THEN
        IF r.retry_after # "" THEN
            IF NumeralParses(r.retry_after)
              THEN Sleep(RetryAfterSecs(r.retry_after)) ELSE Panic
        ELSE IF r.reset # "" THEN
            IF NumeralParses(r.reset) /\ ResetWait(r.reset, now) >= 0
              THEN Sleep(ResetWait(r.reset, now)) ELSE Panic
        ELSE Panic
    ELSE IF r.status = 404 THEN Panic
    ELSE Return

\* One pass of delete_task's loop body on the outcome r of delete_tweet.
Classify(r, now) ==
    IF r.kind = "error" THEN Panic
    ELSE IF r.status >= 200 /\ r.status <= 299 THEN
        IF r.deleted = "true" THEN Return ELSE Panic
    ELSE IF r.status = 429 THEN
        IF r.retry_after # "" THEN
            IF NumeralParses(r.retry_after)
              THEN Sleep(RetryAfterSecs(r.retry_after)) ELSE Panic
        ELSE IF r.reset # "" THEN
            IF NumeralParses(r.reset) /\ ResetWait(r.reset, now) >= 0
              THEN Sleep(ResetWait(r.reset, now)) ELSE Panic
        ELSE Panic
    ELSE Panic

\* ------------------------------------------------------- ProcessedValue
\* The last element removed instead of the first.
ProcessDataLast(d) == IF d # <<>> THEN SubSeq(d, 1, Len(d) - 1) ELSE d

\* process() that removes nothing.
ProcessDataKeep(d) == d

\* process(): remove index 0 of a non-empty data.
ProcessData(d) == IF d # <<>> THEN Tail(d) ELSE d

\* The file after Drop: File::create fails (file untouched), the write
\* succeeds, or the write fails after File::create has truncated the file
\* and k records have gone out.
IntactFile(recs) == [recs |-> recs, intact |-> TRUE]
DropFile(f, d) ==
    {f, IntactFile(d)} \cup {[recs |-> SubSeq(d, 1, k), intact |-> FALSE] : k \in 0..Len(d)}

\* ------------------------------------------------------------------ state
VARIABLES
    file,         \* the archive file: [recs, intact]; not intact = cut-off JSON
    cliTime,      \* the cutoff argument, as typed
    remote,       \* ids of the posts the service holds
    pc,           \* where the process is
    exitCode,     \* the status the process ended with (0 while it runs)
    queued,       \* processed_data has been constructed by this process
    dropped,      \* Drop for ProcessedValue has run in this process
    posts,        \* what the for loop has yet to finish, current item first
    data,         \* processed_data.data
    id,           \* delete_task's id (0 outside delete_task)
    resp,         \* the outcome of delete_task's latest delete_tweet call
    sleepFor,     \* seconds of the rate-limit sleep in progress
    waited,       \* seconds the latest completed sleep lasted
    prev,         \* how the previous process on this file ended
    resolved,     \* ids this process has seen confirmed deleted
    resolvedBefore \* ids earlier processes have seen confirmed deleted

vars == <<file, cliTime, remote, pc, exitCode, queued, dropped, posts, data, id, resp,
          sleepFor, waited, prev, resolved, resolvedBefore>>

Running == pc \in {"start", "loop", "call", "sleep", "returned", "pacing"}
Terminated == pc \in {"done", "panicked", "exited", "killed"}

Init ==
    /\ file \in {IntactFile(a) : a \in Archives}
    /\ cliTime \in CliTimes
    /\ remote \in {Ids, Ids \ {2}}
    /\ pc = "start"
    /\ exitCode = 0
    /\ queued = FALSE
    /\ dropped = FALSE
    /\ posts = <<>>
    /\ data = <<>>
    /\ id = 0
    /\ resp = NoResponse
    /\ sleepFor = 0
    /\ waited = 0
    /\ prev = "none"
    /\ resolved = {}
    /\ resolvedBefore = {}

\* process::exit(code): no destructor runs, the file is left as it is.
ExitWith(code) ==
    /\ pc' = "exited"
    /\ exitCode' = code
    /\ UNCHANGED <<file, dropped>>

\* A panic unwinds main: processed_data, once constructed, is dropped.
PanicUnwind ==
    /\ pc' = "panicked"
    /\ exitCode' = 101   \* the status a Rust panic ends the process with
    /\ dropped' = queued
    /\ IF queued THEN file' \in DropFile(file, data) ELSE UNCHANGED file

\* main up to the construction of processed_data: credentials from the
\* environment, the archive file, the cutoff, the filter.
Startup ==
    /\ pc = "start"
    /\ \E envOk \in BOOLEAN, fileOpens \in BOOLEAN :
        IF ~envOk THEN
            PanicUnwind /\ UNCHANGED <<queued, posts, data>>
        ELSE IF ~fileOpens THEN
            ExitWith(ExitFileOpen) /\ UNCHANGED <<queued, posts, data>>
        ELSE IF ~file.intact THEN
            ExitWith(ExitFileDecode) /\ UNCHANGED <<queued, posts, data>>
        ELSE IF ~CliTimeParses(cliTime) THEN
            ExitWith(ExitTimeParse) /\ UNCHANGED <<queued, posts, data>>
        ELSE IF FilterExit(file.recs) # 0 THEN
            ExitWith(FilterExit(file.recs)) /\ UNCHANGED <<queued, posts, data>>
        ELSE
            /\ posts' = FilterPosts(file.recs, ParseCliTime(cliTime))
            /\ data' = posts'
            /\ queued' = TRUE
            /\ pc' = "loop"
            /\ UNCHANGED <<file, exitCode, dropped>>
    /\ UNCHANGED <<cliTime, remote, id, resp, sleepFor, waited, prev,
                   resolved, resolvedBefore>>

\* The head of the for loop: the end of main when nothing is left, else the
\* null-payload test and the id checks of the item. (Every record the filter
\* lets through has a created_at inside its payload, so the null-payload
\* branch is never taken; it is kept as the code has it.)
LoopIter ==
    /\ pc = "loop"
    /\ IF posts = <<>> THEN
            /\ pc' = "done"
            /\ file' \in DropFile(file, data)
            /\ dropped' = TRUE
            /\ UNCHANGED <<exitCode, posts, id>>
       ELSE LET payload == Index(Head(posts), "tweet")
                idValue == Index(payload, "id")
            IN  IF payload = Null THEN
                    /\ posts' = Tail(posts)
                    /\ UNCHANGED <<file, pc, exitCode, dropped, id>>
                ELSE IF ~IsStr(idValue) THEN
                    ExitWith(ExitIdMissing) /\ UNCHANGED <<posts, id>>
                ELSE IF ~NumeralParses(idValue.str) THEN
                    ExitWith(ExitIdNotU64) /\ UNCHANGED <<posts, id>>
                ELSE
                    /\ id' = ParseNumeral(idValue.str)
                    /\ pc' = "call"
                    /\ UNCHANGED <<file, exitCode, dropped, posts>>
    /\ UNCHANGED <<cliTime, remote, queued, data, resp, sleepFor, waited, prev,
                   resolved, resolvedBefore>>

\* One pass of delete_task's loop: the call and what is done with its answer.
DeleteCallWith(responses) ==
    /\ pc = "call"
    /\ \E r \in responses, now \in NowTimes, wentThrough \in BOOLEAN :
        /\ resp' = r
        /\ remote' = ServiceAfter(id, remote, r, wentThrough)
        /\ LET step == Classify(r, now)
           IN  CASE step.next = "return" ->
                      /\ pc' = "returned"
                      /\ resolved' = resolved \cup {id}
                      /\ UNCHANGED <<file, exitCode, dropped, sleepFor>>
                 [] step.next = "sleep" ->
                      /\ pc' = "sleep"
                      /\ sleepFor' = step.secs
                      /\ UNCHANGED <<file, exitCode, dropped, resolved>>
                 [] OTHER ->
                      PanicUnwind /\ UNCHANGED <<sleepFor, resolved>>
    /\ UNCHANGED <<cliTime, queued, posts, data, id, waited, prev, resolvedBefore>>

DeleteCall == DeleteCallWith(ServiceResponses(id, remote))

\* tokio::time::sleep of the rate-limit wait, then `continue`.
RateLimitSleep ==
    /\ pc = "sleep"
    /\ waited' = sleepFor
    /\ sleepFor' = 0
    /\ pc' = "call"
    /\ UNCHANGED <<file, cliTime, remote, exitCode, queued, dropped, posts, data, id,
                   resp, prev, resolved, resolvedBefore>>

\* processed_data.process() after delete_task has returned.
Process ==
    /\ pc = "returned"
    /\ data' = ProcessData(data)
    /\ id' = 0
    /\ resp' = NoResponse
    /\ pc' = "pacing"
    /\ UNCHANGED <<file, cliTime, remote, exitCode, queued, dropped, posts, sleepFor,
                   waited, prev, resolved, resolvedBefore>>

\* The sleep between two items; the loop then moves to the next item.
Pacing ==
    /\ pc = "pacing"
    /\ waited' = PacingSecs
    /\ posts' = Tail(posts)
    /\ pc' = "loop"
    /\ UNCHANGED <<file, cliTime, remote, exitCode, queued, dropped, data, id, resp,
                   sleepFor, prev, resolved, resolvedBefore>>

\* An interrupt or kill from outside. main installs no signal handler and
\* polls no flag: the process ends where it is, and nothing is dropped.
Interrupt ==
    /\ pc \in {"loop", "call", "sleep", "returned", "pacing"}
    /\ pc' = "killed"
    /\ UNCHANGED <<file, cliTime, remote, exitCode, queued, dropped, posts, data, id,
                   resp, sleepFor, waited, prev, resolved, resolvedBefore>>

\* The program is started again on the same file with the same cutoff.
Restart ==
    /\ Terminated
    /\ prev' = pc
    /\ resolvedBefore' = resolvedBefore \cup resolved
    /\ pc' = "start"
    /\ exitCode' = 0
    /\ queued' = FALSE
    /\ dropped' = FALSE
    /\ posts' = <<>>
    /\ data' = <<>>
    /\ id' = 0
    /\ resp' = NoResponse
    /\ sleepFor' = 0
    /\ waited' = 0
    /\ resolved' = {}
    /\ UNCHANGED <<file, cliTime, remote>>

Next ==
    \/ Startup
    \/ LoopIter
    \/ DeleteCall
    \/ RateLimitSleep
    \/ Process
    \/ Pacing
    \/ Interrupt
    \/ Restart

Spec == Init /\ [][Next]_vars

\* The program run once, undisturbed, against a service that holds every
\* archived post and answers each call with a confirmed deletion or with a
\* 429 whose hint the executor turns into a wait, and that does not answer
\* 429 forever.
BenignResponses(postId, held) ==
    {r \in ServiceResponses(postId, held) :
        \A now \in NowTimes : Classify(r, now).next # "panic"}
DeleteCallBenign == DeleteCallWith(BenignResponses(id, remote))
DeleteCallSuccess == DeleteCallWith({Http(200, "true", "", "")} \cap BenignResponses(id, remote))
InitBenign == Init /\ remote = Ids
NextBenign ==
    \/ Startup
    \/ LoopIter
    \/ DeleteCallBenign
    \/ RateLimitSleep
    \/ Process
    \/ Pacing
SpecBenign ==
    InitBenign /\ [][NextBenign]_vars /\ WF_vars(NextBenign) /\ SF_vars(DeleteCallSuccess)

\* ============================================================== properties
\* The id of a work item, as the loop reads it.
ItemId(rec) == ParseNumeral(Index(Index(rec, "tweet"), "id").str)

\* The outcome r ends the item: deletion confirmed, or the post not found.
TerminalOutcome(r) ==
    r.kind = "http" /\ ((r.status = 200 /\ r.deleted = "true") \/ r.status = 404)

\* What a reader of the file gets: nothing from a cut-off JSON text.
Readable(f) == IF f.intact THEN f.recs ELSE <<>>

\* C1: checkpoint monotonicity. Right after an item is terminally resolved
\* and removed (the pacing sleep is next, the next item's first attempt not
\* yet made), the file on disk holds exactly the remaining queue.
C1_CheckpointEqualsQueue ==
    pc = "pacing" => file = IntactFile(data)

\* C2: the final flush runs on every exit path once the queue exists. Stated
\* for the exits the program itself takes (normal end, panic, exit()): each
\* of them has run the guard's Drop.
C2_FlushOnEveryExit ==
    (pc \in {"done", "panicked", "exited"} /\ queued) => dropped

\* C3: the queue changes only by losing its head, which happens exactly when
\* the executed item has reached a terminal outcome (deleted or not found):
\* never during a retry, and always once such an outcome has come back.
C3_HeadRemovedExactlyOnTerminal ==
    [][(queued /\ queued') =>
         /\ (data' # data =>
               /\ data # <<>> /\ data' = Tail(data)
               /\ pc = "returned" /\ TerminalOutcome(resp)
               /\ ItemId(Head(data)) = id)
         /\ (pc \in {"call", "sleep"} /\ pc' \in {"call", "sleep"} => data' = data)
         /\ (pc = "call" /\ TerminalOutcome(resp') => pc' = "returned")
         /\ (pc = "returned" /\ pc' \notin {"returned", "killed"} =>
               data # <<>> /\ data' = Tail(data))]_vars

\* C4: a 404 answer resolves the item: delete_task returns and the run goes
\* on, it does not abort.
C4_NotFoundIsSuccess ==
    (resp.kind = "http" /\ resp.status = 404) => pc = "returned"

\* C5: rate-limit backoff. A 429 with Retry-After = d puts the executor to
\* sleep for exactly d; the sleep is followed by the next delete call for the
\* same id, the item staying at the head of the queue throughout and no
\* other item being taken up, unless the process is killed first.
C5_RetryAfterBackoff ==
    [][/\ (pc = "call" /\ pc' = "sleep" /\ resp'.retry_after # "") =>
            /\ sleepFor' = ParseNumeral(resp'.retry_after)
            /\ id' = id /\ data' = data /\ posts' = posts
       /\ (pc = "sleep" /\ resp.retry_after # "") =>
            /\ data # <<>> /\ ItemId(Head(data)) = id
            /\ \/ pc' = "killed" /\ data' = data
               \/ /\ pc' = "call"
                  /\ waited' = ParseNumeral(resp.retry_after)
                  /\ id' = id /\ data' = data /\ posts' = posts]_vars

\* A retry is about to be made after a Retry-After: 3 wait of 3 seconds.
C5_Witness ==
    /\ pc = "call" /\ resp.kind = "http" /\ resp.status = 429
    /\ resp.retry_after = "3" /\ waited = 3
    /\ data # <<>> /\ ItemId(Head(data)) = id

\* C6: idempotent resume. A process started on the file a killed process
\* left behind does not abort on an item the killed process had resolved.
C6_ResumeAfterKill ==
    ~(/\ prev = "killed" /\ pc = "panicked"
      /\ resp.kind = "http" /\ resp.status = 404
      /\ id \in resolvedBefore)

\* C7: cancellation boundary. After a stop requested from outside, the work
\* items the checkpoint holds are the queue as it stood: K..end, or K+1..end
\* when K's terminal outcome had come back but the removal had not been made.
C7_CancelledCheckpoint ==
    pc = "killed" =>
        /\ file.intact
        /\ \/ FilterPosts(file.recs, ParseCliTime(cliTime)) = data
           \/ /\ data # <<>> /\ TerminalOutcome(resp)
              /\ FilterPosts(file.recs, ParseCliTime(cliTime)) = Tail(data)

\* The calendar date of a record's timestamp, in days.
DateOf(rec) == ParseCreatedAt(CreatedAtOf(rec).str)

\* s is t with some elements left out, the order kept.
IsSubSeq(s, t) ==
    \E f \in [1..Len(s) -> 1..Len(t)] :
        /\ \A i \in 1..Len(s) : t[f[i]] = s[i]
        /\ \A i, j \in 1..Len(s) : i < j => f[i] < f[j]

\* The filter has just yielded its result: nothing has been attempted yet
\* and the file is still the input.
FreshlyFiltered == pc = "loop" /\ queued /\ resolved = {} /\ posts = data

HasPayload(rec) == Index(rec, "tweet") # Null

C9_NullPayloadSkipped ==
    (pc = "exited" /\ ~queued /\ file.intact
        /\ exitCode \in {ExitCreatedAtMissing, ExitCreatedAtParse}) =>
      \E i \in DOMAIN file.recs :
          /\ Index(file.recs[i], "tweet") # Null
          /\ RecordExit(file.recs[i]) # 0

\* C10: the checkpoint holds every item still in the queue, in every state
\* from the construction of the queue on, a failed flush included.
C10_CheckpointHoldsQueue ==
    queued => Range(data) \subseteq Range(Readable(file))

\* The outcome r is fatal: a transport error, or a status that is neither
\* 2xx nor 429 nor 404.
FatalOutcome(r) ==
    \/ r.kind = "error"
    \/ /\ r.kind = "http"
       /\ ~(r.status >= 200 /\ r.status <= 299)
       /\ r.status \notin {429, 404}

\* C11: fatal abort preserves the failing item. A fatal outcome ends the
\* process in the same step with the queue as it was, the failing item at
\* its head; the process makes no further step (only a new start of the
\* program follows); and the file the exit leaves is the untouched input or,
\* once the guard's write has gone through, exactly that queue: when it is
\* readable it holds the failing item and every item after it.
C11_FatalKeepsFailingItem ==
    [][/\ (pc = "call" /\ FatalOutcome(resp')) =>
            /\ pc' = "panicked" /\ dropped'
            /\ data' = data /\ data # <<>> /\ ItemId(Head(data)) = id
            /\ remote' \in {remote, remote \ {id}}
            /\ (file'.intact => file' \in {file, IntactFile(data)})
            /\ (file'.intact => IsSubSeq(data, file'.recs))
       /\ (pc = "panicked" /\ FatalOutcome(resp)) =>
            pc' = "start" /\ remote' = remote /\ file' = file]_vars

\* A server error has aborted the run on the second of two items and the
\* guard has written the queue, the failing item in it.
C11_Witness ==
    /\ pc = "panicked" /\ resp.kind = "http" /\ resp.status = 500
    /\ resolved # {} /\ data # <<>> /\ ItemId(Head(data)) = id
    /\ file = IntactFile(data)

\* A 429 that carries neither Retry-After nor x-rate-limit-reset.
Unexplained429(r) ==
    r.kind = "http" /\ r.status = 429 /\ r.retry_after = "" /\ r.reset = ""

ResetOnly429(r) ==
    /\ r.kind = "http" /\ r.status = 429
    /\ r.retry_after = "" /\ NumeralParses(r.reset)

\* C13: with a reset time and no Retry-After the wait is max(0, reset - now);
\* a reset time at or before now gives a zero wait and a retry, never an
\* abort. So no run has panicked on such a response.
C13_PastResetWaitsZero ==
    ResetOnly429(resp) => pc # "panicked"

\* s is the end of t.
IsSuffix(s, t) ==
    Len(s) <= Len(t) /\ s = SubSeq(t, Len(t) - Len(s) + 1, Len(t))

\* The queue the filter yields on the input file; the file is the input for
\* as long as the process runs.
InitialQueue == FilterPosts(file.recs, ParseCliTime(cliTime))

\* C14: FIFO processing. While the process runs, the queue and the loop's
\* remainder are suffixes of the initial filtered queue; every item before
\* the loop's position has had its deletion confirmed; and the item under
\* delete_task is the one at the loop's position, so an item's first attempt
\* comes only after all items before it are resolved.
C14_FifoSuffix ==
    (queued /\ pc \in {"loop", "call", "sleep", "returned", "pacing"}) =>
        LET passed == Len(InitialQueue) - Len(posts)
        IN  /\ IsSuffix(posts, InitialQueue)
            /\ IsSuffix(data, InitialQueue)
            /\ \A j \in 1..passed : ItemId(InitialQueue[j]) \in resolved
            /\ pc \in {"call", "sleep", "returned"} =>
                 /\ posts # <<>>
                 /\ id = ItemId(InitialQueue[passed + 1])
                 /\ id = ItemId(Head(data))

\* The second of two different items is under delete_task, the first resolved.
C14_Witness ==
    /\ pc = "call" /\ queued
    /\ Len(InitialQueue) = 2 /\ InitialQueue[1] # InitialQueue[2]
    /\ Len(posts) = 1 /\ data = posts
    /\ ItemId(InitialQueue[1]) \in resolved

\* C15: after a terminal resolution the driver removes the item, persists
\* the updated queue, then makes one pacing sleep of the fixed duration; the
\* next attempt is made only after the three; a rate-limit wait or a fatal
\* outcome is followed by no pacing sleep.
C15_RemovePersistPace ==
    [][/\ (pc = "returned" /\ pc' \notin {"returned", "killed"}) =>
            pc' = "pacing" /\ data # <<>> /\ data' = Tail(data)
       /\ (pc = "returned" /\ pc' = "pacing") => file' = IntactFile(data')
       /\ (pc = "pacing" /\ pc' \notin {"pacing", "killed"}) =>
            pc' = "loop" /\ waited' = PacingSecs /\ file' = file /\ data' = data
       /\ (pc # "call" /\ pc' = "call") => pc \in {"loop", "sleep"}
       /\ (pc \in {"call", "sleep"} /\ pc' \in {"call", "sleep", "panicked"}) =>
            waited' # PacingSecs \/ waited = PacingSecs]_vars

\* C16: pre-flight errors precede all deletions. No process that ended in
\* exit() over its configuration or input, a malformed record included, had
\* a deletion confirmed before.
C16_InputErrorsBeforeDeletes ==
    pc = "exited" => resolved = {}

\* A 429 that carries a wait hint the executor can read: a numeric
\* Retry-After, or a numeric x-rate-limit-reset.
WaitHint429(r) ==
    /\ r.kind = "http" /\ r.status = 429
    /\ \/ NumeralParses(r.retry_after)
       \/ r.retry_after = "" /\ NumeralParses(r.reset)

\* C17: no attempt cap. However many rate-limit responses with a wait hint
\* come back, the executor does not give up on the item, so that a service
\* that answers success after finitely many of them lets the run complete:
\* no process has aborted on a 429 that carried a wait hint.
C17_NeverGivesUpOnRateLimit ==
    WaitHint429(resp) => pc # "panicked"

\* The queue's items all have a readable id and no id twice.
QueueWellFormed ==
    /\ \A i \in DOMAIN posts :
          LET idValue == Index(Index(posts[i], "tweet"), "id")
          IN  IsStr(idValue) /\ NumeralParses(idValue.str)
    /\ \A i, j \in DOMAIN posts : i # j => ItemId(posts[i]) # ItemId(posts[j])

\* The part of C17 that holds (under SpecBenign): when every rate-limit
\* answer carries a hint that gives a wait of zero or more and the service
\* answers success in the end, a run on a well-formed queue ends with main
\* returning, the queue empty and every queued post deleted.
C17_BenignRunCompletes ==
    [](FreshlyFiltered /\ QueueWellFormed =>
          <>(pc = "done" /\ data = <<>> /\ posts = <<>> /\ dropped))

\* A 2xx answer, and one whose body confirms the deletion.
Is2xx(r) == r.kind = "http" /\ r.status >= 200 /\ r.status <= 299
ConfirmedDeleted(r) == Is2xx(r) /\ r.deleted = "true"

\* C18: an item is reported deleted, and removed from the queue, only after
\* a 2xx answer whose body has data.deleted = true; a 2xx answer with
\* data.deleted = false or without the field aborts the run in the same
\* step, the item still at the head of the queue and in the file the exit
\* leaves whenever that file is readable.
C18_RemovedOnlyWhenConfirmed ==
    [][/\ (resolved' # resolved /\ resolved' # {}) =>
            /\ ConfirmedDeleted(resp') /\ resolved' = resolved \cup {id}
            /\ pc = "call" /\ pc' = "returned"
       /\ (queued /\ queued' /\ data' # data) =>
            /\ ConfirmedDeleted(resp) /\ id \in resolved
            /\ data # <<>> /\ ItemId(Head(data)) = id /\ data' = Tail(data)
       /\ (pc = "call" /\ Is2xx(resp') /\ ~ConfirmedDeleted(resp')) =>
            /\ pc' = "panicked" /\ dropped'
            /\ resolved' = resolved
            /\ data' = data /\ data # <<>> /\ ItemId(Head(data)) = id
            /\ (file'.intact => file' \in {file, IntactFile(data)})
            /\ (file'.intact => IsSubSeq(data, file'.recs))]_vars

\* The run has aborted on a 200 whose body says data.deleted = false, and the
\* guard has written the queue with the item in it.
C18_Witness ==
    /\ pc = "panicked" /\ Is2xx(resp) /\ resp.deleted = "false"
    /\ data # <<>> /\ ItemId(Head(data)) = id /\ id \notin resolved
    /\ file = IntactFile(data)

\* C19: head alignment. From the top of an iteration until delete_task has
\* returned, the checkpoint queue is the part of the cloned posts list not yet
\* passed, so its head is the record being visited and carries the id handed
\* to delete_task; right after process() the queue is that list without the
\* record just visited, whose id the service confirmed deleted.
C19_HeadAligned ==
    queued =>
        /\ pc \in {"loop", "call", "sleep", "returned"} => data = posts
        /\ pc \in {"call", "sleep", "returned"} =>
             /\ data # <<>> /\ HasPayload(Head(data))
             /\ ItemId(Head(data)) = id
        /\ pc = "returned" => id \in resolved
        /\ pc = "pacing" =>
             /\ posts # <<>> /\ data = Tail(posts)
             /\ ItemId(Head(posts)) \in resolved

\* process() has removed the first of two queued records with different ids
\* after its deletion was confirmed; the other one is now the head.
C19_Witness ==
    /\ queued /\ pc = "pacing" /\ Len(posts) = 2
    /\ data = Tail(posts)
    /\ ItemId(Head(posts)) \in resolved
    /\ IsStr(Index(Index(Head(data), "tweet"), "id"))
    /\ NumeralParses(Index(Index(Head(data), "tweet"), "id").str)
    /\ ItemId(Head(data)) # ItemId(Head(posts))

====
